---------------------------- MODULE Spec2Model ----------------------------
(***************************************************************************)
(* State-machine model of YdB_vArIaDiC_pLiSt_TeSt(int argcnt, ...), the C  *)
(* routine that consumes a variadic parameter list built by the yottadb Go *)
(* package (src/YdB_vArIaDiC_pLiSt_TeSt.c).                                *)
(*                                                                         *)
(* Every thread of control owns its argument list, its two ydb_buffer_t    *)
(* descriptors and the bytes they address (src/v2/yottadb.h, conn.vplist). *)
(* One action models one statement group of the routine; the program       *)
(* counter values are the source line numbers at which the group starts.   *)
(* Byte strings are sequences of character codes; a C string literal       *)
(* carries its terminating NUL.                                            *)
(***************************************************************************)
EXTENDS Integers, Sequences, FiniteSets, TLC

(***************************************************************************)
(* Program constants (#define lines 20-24).                                *)
(***************************************************************************)
expectedargs == 3

expectedval == 42

\* "Buffer one" with its terminating NUL
expectedbuf1 == <<66, 117, 102, 102, 101, 114, 32, 111, 110, 101, 0>>

\* mutation of expectedbuf2: the literal of buffer one pasted for buffer two
expectedbuf2_pasted == expectedbuf1

\* "Buffer two" with its terminating NUL
expectedbuf2 == <<66, 117, 102, 102, 101, 114, 32, 116, 119, 111, 0>>

debugFlag == 0

(***************************************************************************)
(* Bound of the model: threads of control that call the routine            *)
(* concurrently in SpecConc.                                               *)
(***************************************************************************)
NumThreads == 2

(***************************************************************************)
(* C library functions used by the routine, computed as libc computes them.*)
(* A read past the end of an object is undefined behaviour: it yields      *)
(* every outcome, so the operators that can over-read return a set.        *)
(***************************************************************************)
RECURSIVE strlenFrom(_, _)
strlenFrom(s, i) ==
    IF i > Len(s) THEN Len(s)
    ELSE IF s[i] = 0 THEN i - 1
    ELSE strlenFrom(s, i + 1)

\* strlen(s): number of bytes before the first NUL
strlen(s) == strlenFrom(s, 1)

RECURSIVE memcmpFrom(_, _, _, _)
memcmpFrom(a, b, i, n) ==
    IF i > n THEN {0}
    ELSE IF i > Len(a) \/ i > Len(b) THEN {-1, 0, 1}
    ELSE IF a[i] # b[i] THEN {IF a[i] < b[i] THEN -1 ELSE 1}
    ELSE memcmpFrom(a, b, i + 1, n)

\* memcmp(a, b, n): sign of the first difference among the first n bytes
memcmp(a, b, n) == memcmpFrom(a, b, 1, n)

RECURSIVE Digits(_)
Digits(n) == IF n < 10 THEN <<48 + n>> ELSE Digits(n \div 10) \o <<48 + (n % 10)>>

\* printf("%d", n)
FmtD(n) == IF n < 0 THEN <<45>> \o Digits(0 - n) ELSE Digits(n)

\* printf("%s", s) of a NUL-terminated string
FmtS(s) == SubSeq(s, 1, strlen(s))

\* printf("%.*s", prec, s): at most prec bytes, stopping at a NUL
FmtPrecS(prec, s) ==
    LET n == strlen(s)
    IN  IF prec <= n \/ n < Len(s)
        THEN {SubSeq(s, 1, IF prec < n THEN prec ELSE n)}
        ELSE {s, s \o <<63>>}

(***************************************************************************)
(* The conditions of the routine's four if statements.                     *)
(***************************************************************************)
\* mutation of CountWrong: "<" typed for "!="
CountWrong_lt(n) == n < expectedargs

\* line 35: argcnt != expectedargs
CountWrong(n) == n # expectedargs

\* mutation of NumWrong: "<" typed for "!="
NumWrong_lt(n) == expectedval < n

\* line 42: expectedval != num
NumWrong(n) == expectedval # n

\* mutation of LenWrong: the length test left out
LenWrong_never(len_used, expected) == FALSE

\* lines 56, 73, left operand of ||: len_used != strlen(expected)
LenWrong(len_used, expected) == len_used # strlen(expected)

\* mutation of ContentWrong: the result of memcmp ignored
ContentWrong_never(r) == FALSE

\* lines 56, 73, right operand of ||: 0 != memcmp(...)
ContentWrong(r) == 0 # r

(***************************************************************************)
(* What a caller can pass.  A slot of the argument list holds an int, a    *)
(* pointer to a descriptor, or garbage (poison).                           *)
(***************************************************************************)
IntSlot(n) == [kind |-> "int", ival |-> n, pval |-> "null"]

PtrSlot(p) == [kind |-> "ptr", ival |-> 0, pval |-> p]

PoisonSlot == [kind |-> "poison", ival |-> 0, pval |-> "wild"]

\* a ydb_buffer_t and the bytes behind it
Buffer(alloc, used, bs) == [len_alloc |-> alloc, len_used |-> used, data |-> bs]

\* "Buffer one" in 10 bytes
B1ok == Buffer(10, 10, <<66, 117, 102, 102, 101, 114, 32, 111, 110, 101>>)

\* "Buffer two" in 10 bytes
B2ok == Buffer(10, 10, <<66, 117, 102, 102, 101, 114, 32, 116, 119, 111>>)

\* "Buffer ONE", same length as "Buffer one"
B1upper == Buffer(10, 10, <<66, 117, 102, 102, 101, 114, 32, 79, 78, 69>>)

\* the descriptors a caller passes as buffer one and as buffer two: right,
\* wrong bytes, declared length 9, length 11, and a larger allocation
Buffers1 ==
    { B1ok, B1upper,
      Buffer(10, 9, B1ok.data),
      Buffer(11, 11, B1ok.data \o <<33>>),
      Buffer(12, 10, B1ok.data \o <<0, 0>>) }

Buffers2 ==
    { B2ok, B1ok,
      Buffer(10, 9, B2ok.data),
      Buffer(11, 11, B2ok.data \o <<33>>),
      Buffer(12, 10, B2ok.data \o <<0, 0>>) }

NumVals == {41, 42, 43}

NoHeap == [a \in {} |-> 0]

\* a call with three well-formed arguments: an int and two descriptors
WellFormed(cnt, n, b1, b2) ==
    [ argcnt |-> cnt,
      plist  |-> <<IntSlot(n), PtrSlot("d1"), PtrSlot("d2")>>,
      desc   |-> ("d1" :> [buf_addr |-> "b1", len_alloc |-> b1.len_alloc,
                           len_used |-> b1.len_used])
              @@ ("d2" :> [buf_addr |-> "b2", len_alloc |-> b2.len_alloc,
                           len_used |-> b2.len_used]),
      bytes  |-> ("b1" :> b1.data) @@ ("b2" :> b2.data) ]

\* a call whose argument list is absent
Absent(cnt) == [argcnt |-> cnt, plist |-> <<>>, desc |-> NoHeap, bytes |-> NoHeap]

\* a call whose argument list holds garbage
Poisoned(cnt) ==
    [ argcnt |-> cnt, plist |-> <<PoisonSlot, PoisonSlot, PoisonSlot>>,
      desc |-> NoHeap, bytes |-> NoHeap ]

WrongCounts == {-1, 0, 2, 4}

Inputs ==
    { WellFormed(expectedargs, n, b1, b2) : n \in NumVals, b1 \in Buffers1, b2 \in Buffers2 }
    \cup { Absent(c) : c \in WrongCounts }
    \cup { Poisoned(c) : c \in WrongCounts }
    \cup { WellFormed(c, expectedval, B1ok, B2ok) : c \in WrongCounts }

\* the calls made concurrently: one per path through the routine
ConcInputs ==
    { Absent(2),
      WellFormed(expectedargs, 41, B1ok, B2ok),
      WellFormed(expectedargs, expectedval, B1upper, B2ok),
      WellFormed(expectedargs, expectedval, B1ok, Buffer(10, 9, B2ok.data)),
      WellFormed(expectedargs, expectedval, B1ok, B2ok) }


(***************************************************************************)
(* State.  Every variable is a function of the thread of control.          *)
(*   pc             position in the routine ("idle": not in a call)        *)
(*   argcnt, plist  the arguments of the call in progress                  *)
(*   desc, bytes    the caller's heap: descriptors and the bytes they      *)
(*                  address; desc0, bytes0 are its contents at call entry  *)
(*   var, num, buft1, buft2   the routine's locals (lines 31-33)           *)
(*   result         the value returned, <<>> before the return             *)
(*   out            the lines the call in progress has written to stdout   *)
(*   trace, derefs, cmps   history of the call in progress: its steps, the *)
(*                  addresses it has read through, its calls of memcmp     *)
(***************************************************************************)
VARIABLES pc, argcnt, plist, desc, bytes, desc0, bytes0,
          var, num, buft1, buft2, result, out, trace, derefs, cmps

vars == <<pc, argcnt, plist, desc, bytes, desc0, bytes0,
          var, num, buft1, buft2, result, out, trace, derefs, cmps>>

caller == <<argcnt, plist, desc0, bytes0>>

heap == <<desc, bytes>>

Threads == DOMAIN pc

\* a line of output: which printf wrote it and its two arguments, formatted
Line(fmt, e, r) == [fmt |-> fmt, expected |-> e, received |-> r]

Event(ev, arg, ok) == [ev |-> ev, arg |-> arg, ok |-> ok]

\* va_list before va_start
NoCursor == [open |-> FALSE, pos |-> 0]

InitOver(T) ==
    /\ pc = [t \in T |-> "idle"]
    /\ argcnt = [t \in T |-> 0]
    /\ plist = [t \in T |-> <<>>]
    /\ desc = [t \in T |-> NoHeap]
    /\ bytes = [t \in T |-> NoHeap]
    /\ desc0 = [t \in T |-> NoHeap]
    /\ bytes0 = [t \in T |-> NoHeap]
    /\ var = [t \in T |-> NoCursor]
    /\ num = [t \in T |-> 0]
    /\ buft1 = [t \in T |-> "uninit"]
    /\ buft2 = [t \in T |-> "uninit"]
    /\ result = [t \in T |-> <<>>]
    /\ out = [t \in T |-> <<>>]
    /\ trace = [t \in T |-> <<>>]
    /\ derefs = [t \in T |-> {}]
    /\ cmps = [t \in T |-> <<>>]

(***************************************************************************)
(* va_arg: the next slot of the list, read as the type the routine names.  *)
(* Reading a slot that is absent or of another type is undefined: any      *)
(* value may come back.                                                    *)
(***************************************************************************)
GarbageInts == {0, expectedval}

GarbagePtrs == {"wild", "d1"}

va_arg_int(list, pos) ==
    IF pos + 1 <= Len(list) /\ list[pos + 1].kind = "int"
    THEN {list[pos + 1].ival}
    ELSE GarbageInts

va_arg_ptr(list, pos) ==
    IF pos + 1 <= Len(list) /\ list[pos + 1].kind = "ptr"
    THEN {list[pos + 1].pval}
    ELSE GarbagePtrs

(***************************************************************************)
(* The caller: TestVariadicPlist() builds the arguments and calls.         *)
(***************************************************************************)
CallWith(t, inp) ==
    /\ pc[t] = "idle"
    /\ pc' = [pc EXCEPT ![t] = "L35"]
    /\ argcnt' = [argcnt EXCEPT ![t] = inp.argcnt]
    /\ plist' = [plist EXCEPT ![t] = inp.plist]
    /\ desc' = [desc EXCEPT ![t] = inp.desc]
    /\ bytes' = [bytes EXCEPT ![t] = inp.bytes]
    /\ desc0' = [desc0 EXCEPT ![t] = inp.desc]
    /\ bytes0' = [bytes0 EXCEPT ![t] = inp.bytes]
    /\ UNCHANGED <<var, num, buft1, buft2, result, out, trace, derefs, cmps>>

Call(t) == \E inp \in Inputs : CallWith(t, inp)

ConcCall(t) == \E inp \in ConcInputs : CallWith(t, inp)

\* the caller takes the returned value; the routine's frame is gone
Return(t) ==
    /\ pc[t] = "done"
    /\ pc' = [pc EXCEPT ![t] = "idle"]
    /\ argcnt' = [argcnt EXCEPT ![t] = 0]
    /\ plist' = [plist EXCEPT ![t] = <<>>]
    /\ desc' = [desc EXCEPT ![t] = NoHeap]
    /\ bytes' = [bytes EXCEPT ![t] = NoHeap]
    /\ desc0' = [desc0 EXCEPT ![t] = NoHeap]
    /\ bytes0' = [bytes0 EXCEPT ![t] = NoHeap]
    /\ var' = [var EXCEPT ![t] = NoCursor]
    /\ num' = [num EXCEPT ![t] = 0]
    /\ buft1' = [buft1 EXCEPT ![t] = "uninit"]
    /\ buft2' = [buft2 EXCEPT ![t] = "uninit"]
    /\ result' = [result EXCEPT ![t] = <<>>]
    /\ out' = [out EXCEPT ![t] = <<>>]
    /\ trace' = [trace EXCEPT ![t] = <<>>]
    /\ derefs' = [derefs EXCEPT ![t] = {}]
    /\ cmps' = [cmps EXCEPT ![t] = <<>>]

(***************************************************************************)
(* The routine, statement group by statement group.                        *)
(***************************************************************************)
\* printf of the lines, the last of them a diagnostic, followed by "return 1"
FailWith(t, lines, arg) ==
    /\ out' = [out EXCEPT ![t] = @ \o lines]
    /\ result' = [result EXCEPT ![t] = <<1>>]
    /\ pc' = [pc EXCEPT ![t] = "done"]
    /\ trace' = [trace EXCEPT ![t] = Append(@, Event("check", arg, FALSE))]

\* a check that passes: control goes on to the statement at next; the
\* statement after the last check is "return 0" (line 83)
PassTo(t, next, lines, arg) ==
    /\ pc' = [pc EXCEPT ![t] = next]
    /\ trace' = [trace EXCEPT ![t] = Append(@, Event("check", arg, TRUE))]
    /\ out' = [out EXCEPT ![t] = @ \o lines]
    /\ result' = [result EXCEPT ![t] = IF next = "done" THEN <<0>> ELSE @]

\* lines 35-39
CheckCount(t) ==
    /\ pc[t] = "L35"
    /\ IF CountWrong(argcnt[t])
       THEN FailWith(t, <<Line("argcnt", FmtD(expectedargs), FmtD(argcnt[t]))>>, "argcnt")
       ELSE PassTo(t, "L40", <<>>, "argcnt")
    /\ UNCHANGED <<caller, heap, var, num, buft1, buft2, derefs, cmps>>

\* line 40: va_start(var, argcnt)
VaStart(t) ==
    /\ pc[t] = "L40"
    /\ var' = [var EXCEPT ![t] = [open |-> TRUE, pos |-> 0]]
    /\ pc' = [pc EXCEPT ![t] = "L41"]
    /\ trace' = [trace EXCEPT ![t] = Append(@, Event("va_start", "var", TRUE))]
    /\ UNCHANGED <<caller, heap, num, buft1, buft2, result, out, derefs, cmps>>

\* mutation of PullNum: num declared static, one object for all threads
PullNum_static(t) ==
    /\ pc[t] = "L41"
    /\ \E v \in va_arg_int(plist[t], var[t].pos) :
           num' = [u \in DOMAIN num |-> v]
    /\ var' = [var EXCEPT ![t].pos = @ + 1]
    /\ pc' = [pc EXCEPT ![t] = "L42"]
    /\ trace' = [trace EXCEPT ![t] = Append(@, Event("va_arg", "int", TRUE))]
    /\ UNCHANGED <<caller, heap, buft1, buft2, result, out, derefs, cmps>>

\* line 41: num = va_arg(var, int)
PullNum(t) ==
    /\ pc[t] = "L41"
    /\ \E v \in va_arg_int(plist[t], var[t].pos) :
           num' = [num EXCEPT ![t] = v]
    /\ var' = [var EXCEPT ![t].pos = @ + 1]
    /\ pc' = [pc EXCEPT ![t] = "L42"]
    /\ trace' = [trace EXCEPT ![t] = Append(@, Event("va_arg", "int", TRUE))]
    /\ UNCHANGED <<caller, heap, buft1, buft2, result, out, derefs, cmps>>

\* mutation of CheckNum: the "return 1" of line 45 left out
CheckNum_fallthrough(t) ==
    /\ pc[t] = "L42"
    /\ IF NumWrong(num[t])
       THEN /\ out' = [out EXCEPT ![t] =
                          Append(@, Line("first", FmtD(expectedval), FmtD(num[t])))]
            /\ trace' = [trace EXCEPT ![t] = Append(@, Event("check", "int", FALSE))]
            /\ pc' = [pc EXCEPT ![t] = "L47"]
            /\ UNCHANGED result
       ELSE PassTo(t, "L47", <<>>, "int")
    /\ UNCHANGED <<caller, heap, var, num, buft1, buft2, derefs, cmps>>

\* lines 42-46
CheckNum(t) ==
    /\ pc[t] = "L42"
    /\ IF NumWrong(num[t])
       THEN FailWith(t, <<Line("first", FmtD(expectedval), FmtD(num[t]))>>, "int")
       ELSE PassTo(t, "L47", <<>>, "int")
    /\ UNCHANGED <<caller, heap, var, num, buft1, buft2, derefs, cmps>>

\* mutation of PullBuf1: the pointer stored in buft2 instead of buft1
PullBuf1_into2(t) ==
    /\ pc[t] = "L47"
    /\ \E p \in va_arg_ptr(plist[t], var[t].pos) :
           buft2' = [buft2 EXCEPT ![t] = p]
    /\ var' = [var EXCEPT ![t].pos = @ + 1]
    /\ pc' = [pc EXCEPT ![t] = "L48"]
    /\ trace' = [trace EXCEPT ![t] = Append(@, Event("va_arg", "buft2", TRUE))]
    /\ UNCHANGED <<caller, heap, num, buft1, result, out, derefs, cmps>>

\* line 47: buft1 = va_arg(var, ydb_buffer_t *)
PullBuf1(t) ==
    /\ pc[t] = "L47"
    /\ \E p \in va_arg_ptr(plist[t], var[t].pos) :
           buft1' = [buft1 EXCEPT ![t] = p]
    /\ var' = [var EXCEPT ![t].pos = @ + 1]
    /\ pc' = [pc EXCEPT ![t] = "L48"]
    /\ trace' = [trace EXCEPT ![t] = Append(@, Event("va_arg", "buft1", TRUE))]
    /\ UNCHANGED <<caller, heap, num, buft2, result, out, derefs, cmps>>

\* line 65: buft2 = va_arg(var, ydb_buffer_t *)
PullBuf2(t) ==
    /\ pc[t] = "L65"
    /\ \E p \in va_arg_ptr(plist[t], var[t].pos) :
           buft2' = [buft2 EXCEPT ![t] = p]
    /\ var' = [var EXCEPT ![t].pos = @ + 1]
    /\ pc' = [pc EXCEPT ![t] = "L66"]
    /\ trace' = [trace EXCEPT ![t] = Append(@, Event("va_arg", "buft2", TRUE))]
    /\ UNCHANGED <<caller, heap, num, buft1, result, out, derefs, cmps>>

\* the lines printed under debugFlag before a buffer is checked
\* (lines 48-55 and 66-72) and after it has passed (lines 61-64, 78-81)
DebugBefore(arg, d) ==
    IF debugFlag # 0
    THEN (IF arg = "buft1" THEN <<Line("debug", <<>>, <<>>)>> ELSE <<>>)
         \o << Line("debug", <<>>, <<>>), Line("debug", <<>>, <<>>),
               Line("debug", <<>>, FmtD(d.len_alloc)),
               Line("debug", <<>>, FmtD(d.len_used)) >>
    ELSE <<>>

DebugAfter(d, bs) ==
    IF debugFlag # 0
    THEN << Line("debug", <<>>, CHOOSE txt \in FmtPrecS(d.len_used, bs) : TRUE),
            Line("debug", <<>>, <<>>) >>
    ELSE <<>>

\* Lines 48-64 (buffer one) and 66-83 (buffer two): the descriptor at p is
\* checked against the literal expected.  memcmp is called only when the
\* left operand of || is false.  Reading through a pointer that addresses
\* no object ends the process (SIGSEGV).
CheckBufAt(t, here, fmt, arg, p, expected, next) ==
    /\ pc[t] = here
    /\ IF p \notin DOMAIN desc[t]
       THEN /\ pc' = [pc EXCEPT ![t] = "crashed"]
            /\ derefs' = [derefs EXCEPT ![t] = @ \cup {p}]
            /\ UNCHANGED <<out, result, trace, cmps>>
       ELSE LET d == desc[t][p]
                bs == bytes[t][d.buf_addr]
                called == ~LenWrong(d.len_used, expected)
            IN  /\ derefs' = [derefs EXCEPT ![t] =
                       @ \cup {p} \cup (IF d.len_used > 0 THEN {d.buf_addr} ELSE {})]
                /\ cmps' = [cmps EXCEPT ![t] =
                       IF called THEN Append(@, [buf |-> p, n |-> d.len_used]) ELSE @]
                /\ \E r \in (IF called THEN memcmp(expected, bs, d.len_used) ELSE {0}) :
                       IF ~called \/ ContentWrong(r)
                       THEN \E txt \in FmtPrecS(d.len_used, bs) :
                                FailWith(t, DebugBefore(arg, d)
                                            \o <<Line(fmt, FmtS(expected), txt)>>, arg)
                       ELSE PassTo(t, next, DebugBefore(arg, d) \o DebugAfter(d, bs), arg)
    /\ UNCHANGED <<caller, heap, var, num, buft1, buft2>>

\* mutation of CheckBuf1: "=" typed for "!=" in the length test of line 56,
\* which stores 10 in buft1->len_used and makes the condition true
CheckBuf1_assign(t) ==
    /\ pc[t] = "L48"
    /\ buft1[t] \in DOMAIN desc[t]
    /\ desc' = [desc EXCEPT ![t][buft1[t]].len_used = strlen(expectedbuf1)]
    /\ derefs' = [derefs EXCEPT ![t] = @ \cup {buft1[t], desc[t][buft1[t]].buf_addr}]
    /\ \E txt \in FmtPrecS(strlen(expectedbuf1), bytes[t][desc[t][buft1[t]].buf_addr]) :
           FailWith(t, <<Line("buf1", FmtS(expectedbuf1), txt)>>, "buft1")
    /\ UNCHANGED <<caller, bytes, var, num, buft1, buft2, cmps>>

\* lines 48-64
CheckBuf1(t) == CheckBufAt(t, "L48", "buf1", "buft1", buft1[t], expectedbuf1, "L65")

\* lines 66-83
CheckBuf2(t) == CheckBufAt(t, "L66", "buf2", "buft2", buft2[t], expectedbuf2, "done")

\* one step of the routine in thread t
Step(t) ==
    \/ CheckCount(t)
    \/ VaStart(t)
    \/ PullNum(t)
    \/ CheckNum(t)
    \/ PullBuf1(t)
    \/ CheckBuf1(t)
    \/ PullBuf2(t)
    \/ CheckBuf2(t)

(***************************************************************************)
(* Spec: one thread of control calls the routine, again and again, with    *)
(* every input of Inputs.  SpecConc: NumThreads threads call it            *)
(* concurrently, each with its own arguments and heap.                     *)
(***************************************************************************)
SeqThreads == {1}

Init == InitOver(SeqThreads)

Next == \E t \in SeqThreads : Call(t) \/ Step(t) \/ Return(t)

Spec == Init /\ [][Next]_vars

ConcThreads == 1 .. NumThreads

ConcInit == InitOver(ConcThreads)

ConcNext == \E t \in ConcThreads : ConcCall(t) \/ Step(t) \/ Return(t)

SpecConc == ConcInit /\ [][ConcNext]_vars

(***************************************************************************)
(* Vocabulary of the properties: what the caller passed to the call that   *)
(* thread t has in progress, read from the arguments and from the heap as  *)
(* it was at call entry.                                                   *)
(***************************************************************************)
Done(t) == pc[t] = "done"

Running(t) == pc[t] \notin {"idle", "done"}

TextOne == B1ok.data

TextTwo == B2ok.data

PassedInt(t) == plist[t][1].ival

PassedLen(t, d) == desc0[t][d].len_used

PassedBytes(t, d) == bytes0[t][desc0[t][d].buf_addr]

\* the descriptor d holds exactly the 10 bytes of text
Holds(t, d, text) ==
    /\ PassedLen(t, d) = 10
    /\ SubSeq(PassedBytes(t, d), 1, 10) = text

AllRight(t) ==
    /\ argcnt[t] = 3
    /\ PassedInt(t) = 42
    /\ Holds(t, "d1", TextOne)
    /\ Holds(t, "d2", TextTwo)

IsPull(e) == e.ev = "va_arg"

IsFailure(e) == ~e.ok

Pulls(t) == SelectSeq(trace[t], IsPull)

\* C1: a call whose argcnt is not 3 returns 1 straight from the count
\* check: the cursor is never started, no argument is pulled, nothing is
\* read through a pointer, whatever the argument list holds.
C1_CountMismatchReturnsEarly ==
    \A t \in Threads :
        (pc[t] \notin {"idle", "L35"} /\ argcnt[t] # 3) =>
            /\ Done(t)
            /\ result[t] = <<1>>
            /\ var[t] = NoCursor
            /\ Pulls(t) = <<>>
            /\ \A i \in DOMAIN trace[t] : trace[t][i].ev # "va_start"
            /\ derefs[t] = {}
            /\ buft1[t] = "uninit" /\ buft2[t] = "uninit"

C1_Witness ==
    \E t \in Threads :
        /\ Done(t) /\ argcnt[t] = 4 /\ result[t] = <<1>>
        /\ plist[t] = <<PoisonSlot, PoisonSlot, PoisonSlot>>

\* C2: the routine never stops part-way (every position before the return
\* has a next step, and a call takes at most 8 steps), it returns 0 or 1,
\* and it returns 0 exactly when argcnt is 3, the integer is 42 and the two
\* descriptors hold the 10 bytes "Buffer one" and "Buffer two".
C2_ZeroIffAllRight ==
    \A t \in Threads :
        /\ pc[t] # "crashed"
        /\ Running(t) => ENABLED Step(t)
        /\ Len(trace[t]) <= 8
        /\ Done(t) =>
            /\ result[t] \in {<<0>>, <<1>>}
            /\ (result[t] = <<0>>) <=> AllRight(t)

C2_Witness ==
    \E t \in Threads : Done(t) /\ result[t] = <<0>> /\ AllRight(t)

\* C3: with argcnt 3 and an integer n other than 42 the routine returns 1,
\* prints one line naming 42 and n, and pulls and reads neither descriptor.
C3_WrongIntegerReported ==
    \A t \in Threads :
        (Done(t) /\ argcnt[t] = 3 /\ PassedInt(t) # 42) =>
            /\ result[t] = <<1>>
            /\ out[t] = <<Line("first", <<52, 50>>, FmtD(PassedInt(t)))>>
            /\ PassedInt(t) = 41 => out[t][1].received = <<52, 49>>
            /\ var[t].pos = 1
            /\ buft1[t] = "uninit" /\ buft2[t] = "uninit"
            /\ derefs[t] = {}

C3_Witness ==
    \E t \in Threads :
        /\ Done(t) /\ argcnt[t] = 3 /\ PassedInt(t) = 41
        /\ Holds(t, "d1", TextOne) /\ Holds(t, "d2", TextTwo)
        /\ result[t] = <<1>>

\* C4: with argcnt 3 and integer 42, a first descriptor of length 10 whose
\* bytes are not "Buffer one" makes the routine return 1 with the Buffer1
\* line, whatever the second descriptor holds; the second descriptor is
\* neither pulled nor read.
C4_WrongBuffer1Reported ==
    \A t \in Threads :
        (/\ Done(t) /\ argcnt[t] = 3 /\ PassedInt(t) = 42
         /\ PassedLen(t, "d1") = 10
         /\ SubSeq(PassedBytes(t, "d1"), 1, 10) # TextOne) =>
            /\ result[t] = <<1>>
            /\ out[t] = <<Line("buf1", TextOne, SubSeq(PassedBytes(t, "d1"), 1, 10))>>
            /\ var[t].pos = 2
            /\ buft2[t] = "uninit"
            /\ derefs[t] \cap {"d2", "b2"} = {}

C4_Witness ==
    \E t \in Threads :
        /\ Done(t) /\ argcnt[t] = 3 /\ PassedInt(t) = 42
        /\ PassedLen(t, "d1") = 10 /\ PassedBytes(t, "d1") = B1upper.data
        /\ ~Holds(t, "d2", TextTwo)
        /\ result[t] = <<1>>

\* C5: memcmp is called on a descriptor only when its len_used is 10, and
\* then over exactly 10 bytes; a descriptor the routine examines whose
\* len_used is not 10 makes it return 1 without any memcmp on it, and a
\* call with argcnt 3 where either len_used is not 10 returns 1.
C5_LengthGuardsContent ==
    \A t \in Threads :
        /\ \A i \in DOMAIN cmps[t] :
               /\ cmps[t][i].n = 10
               /\ PassedLen(t, cmps[t][i].buf) = 10
        /\ \A d \in {"d1", "d2"} :
               (Done(t) /\ d \in derefs[t] /\ PassedLen(t, d) # 10) =>
                   /\ result[t] = <<1>>
                   /\ \A i \in DOMAIN cmps[t] : cmps[t][i].buf # d
        /\ (/\ Done(t) /\ argcnt[t] = 3
            /\ (PassedLen(t, "d1") # 10 \/ PassedLen(t, "d2") # 10)) =>
               result[t] = <<1>>

C5_Witness ==
    \E t \in Threads :
        /\ Done(t) /\ argcnt[t] = 3 /\ result[t] = <<1>>
        /\ PassedLen(t, "d2") = 9 /\ PassedBytes(t, "d2") = TextTwo
        /\ cmps[t] = <<[buf |-> "d1", n |-> 10]>>
        /\ "d2" \in derefs[t]

\* the number of arguments of an arity-3 call that differ from what the
\* routine expects
Mismatches(t) ==
    (IF PassedInt(t) # 42 THEN 1 ELSE 0)
    + (IF Holds(t, "d1", TextOne) THEN 0 ELSE 1)
    + (IF Holds(t, "d2", TextTwo) THEN 0 ELSE 1)

\* the line the routine prints for the first argument that differs
FirstDiagnostic(t) ==
    IF PassedInt(t) # 42
    THEN Line("first", <<52, 50>>, FmtD(PassedInt(t)))
    ELSE IF ~Holds(t, "d1", TextOne)
    THEN Line("buf1", TextOne, SubSeq(PassedBytes(t, "d1"), 1, PassedLen(t, "d1")))
    ELSE Line("buf2", TextTwo, SubSeq(PassedBytes(t, "d2"), 1, PassedLen(t, "d2")))

\* C6 as stated: a call with argcnt 3 and k mismatching arguments prints k
\* diagnostic lines, one for each mismatching argument.
C6_OneLinePerMismatch ==
    \A t \in Threads :
        (Done(t) /\ argcnt[t] = 3) => Len(out[t]) = Mismatches(t)

\* C6 amended: a call with argcnt 3 prints no line when no argument
\* mismatches and otherwise exactly one line, for the first mismatching
\* argument in the order integer, buffer one, buffer two, naming the
\* expected and the actual value; every check that failed has its line.
C6_OneLineForFirstMismatch ==
    \A t \in Threads :
        /\ Len(out[t]) = Len(SelectSeq(trace[t], IsFailure))
        /\ (Done(t) /\ argcnt[t] = 3) =>
              IF Mismatches(t) = 0
              THEN out[t] = <<>> /\ result[t] = <<0>>
              ELSE out[t] = <<FirstDiagnostic(t)>> /\ result[t] = <<1>>

C6_Witness ==
    \E t \in Threads :
        /\ Done(t) /\ argcnt[t] = 3 /\ Mismatches(t) = 3
        /\ Len(out[t]) = 1 /\ out[t][1].fmt = "first"

\* C7: at every point of a call, on every path, both descriptors and the
\* bytes they address are what they were when the call was made.
C7_OnlyReads ==
    \A t \in Threads :
        pc[t] # "idle" => desc[t] = desc0[t] /\ bytes[t] = bytes0[t]

C7_Witness ==
    \E t \in Threads :
        /\ Done(t) /\ argcnt[t] = 3 /\ result[t] = <<1>>
        /\ PassedLen(t, "d1") = 9
        /\ derefs[t] = {"d1", "b1"}
        /\ desc[t]["d1"].len_used = 9

\* C8: while the threads run concurrently, each on its own arguments, every
\* call that is under way can take its next step whatever the others do,
\* and the value a call returns is the value it returns when run alone:
\* 0 when all its own arguments are right, 1 otherwise.
C8_ReturnsAsAlone ==
    \A t \in Threads :
        /\ pc[t] # "crashed"
        /\ Running(t) => ENABLED Step(t)
        /\ Done(t) => result[t] = <<IF AllRight(t) THEN 0 ELSE 1>>

C8_Witness ==
    \E t, u \in Threads :
        /\ t # u
        /\ Done(t) /\ result[t] = <<0>>
        /\ pc[u] = "L42" /\ num[u] = 41 /\ num[t] = 42

PullOrder == <<"int", "buft1", "buft2">>

\* C9: the arguments are pulled in the order integer, first descriptor,
\* second descriptor, each at most once; a pull comes only after the count
\* check and the check of every argument pulled before it have passed; a
\* failed check is the last step of the call; only pulled descriptors are
\* read.
C9_PullsInOrderAfterChecks ==
    \A t \in Threads :
        LET tr == trace[t]
        IN  /\ Len(Pulls(t)) <= 3
            /\ \A i \in DOMAIN Pulls(t) : Pulls(t)[i].arg = PullOrder[i]
            /\ var[t].pos = Len(Pulls(t))
            /\ \A i \in DOMAIN tr :
                   IsPull(tr[i]) =>
                       /\ \E j \in 1 .. (i - 1) : tr[j] = Event("check", "argcnt", TRUE)
                       /\ \A j \in 1 .. (i - 1) :
                              /\ tr[j].ok
                              /\ IsPull(tr[j]) =>
                                     \E k \in (j + 1) .. (i - 1) :
                                         tr[k] = Event("check", tr[j].arg, TRUE)
            /\ \A i \in DOMAIN tr :
                   IsFailure(tr[i]) => i = Len(tr) /\ Done(t) /\ result[t] = <<1>>
            /\ ("d1" \in derefs[t] \/ "b1" \in derefs[t]) => Len(Pulls(t)) >= 2
            /\ ("d2" \in derefs[t] \/ "b2" \in derefs[t]) => Len(Pulls(t)) = 3

C9_Witness ==
    \E t \in Threads :
        /\ Done(t) /\ result[t] = <<1>>
        /\ Len(Pulls(t)) = 2
        /\ trace[t][Len(trace[t])] = Event("check", "buft1", FALSE)
        /\ ~Holds(t, "d2", TextTwo)

\* C10: every return of a call that started the cursor with va_start comes
\* after va_end: when the routine has returned, the cursor is not open.
C10_CursorReleased ==
    \A t \in Threads : Done(t) => ~var[t].open

=============================================================================
